---- MODULE Spec2Model ----
(***************************************************************************)
(* Model of server.js: the seeded Fisher-Yates shuffle, the daily set      *)
(* builder and the GET /api/quiz handler.                                  *)
(*                                                                         *)
(* JavaScript arrays are references, so the arrays a call touches live in  *)
(* a heap (a sequence of arrays, a reference being an index into it).      *)
(* Every operator that allocates or writes an array takes the heap and     *)
(* returns the heap it leaves behind.                                      *)
(***************************************************************************)
EXTENDS Integers, Sequences, FiniteSets, TLC

VARIABLES
    questionsPool,  \* content of the module-level pool array (server.js:8)
    pool0,          \* history: the pool as loaded at start-up
    tz,             \* the server's local-time offset from UTC, in ticks
    monthLen,       \* number of days of the calendar month the run starts in
    now,            \* the wall clock, in ticks since the start of that month
    last,           \* what the latest call or request did
    first           \* what the first call (or the first request of a day) did

vars == <<questionsPool, pool0, tz, monthLen, now, last, first>>

None == [fn |-> "none"]

(***************************************************************************)
(* Program constants.                                                      *)
(***************************************************************************)
QuotaEasy == 4
QuotaMedium == 5
QuotaHard == 21
SetSize == 30
RotationPeriod == 3

counts == [Easy |-> QuotaEasy, Medium |-> QuotaMedium, Hard |-> QuotaHard]

(***************************************************************************)
(* Bounds of the model.                                                    *)
(***************************************************************************)
MaxEasy == 5        \* largest number of Easy questions in a pool
MaxMedium == 6      \* largest number of Medium questions in a pool
MaxHard == 23       \* largest number of Hard questions in a pool
MaxOther == 8       \* largest number of questions with another label
MaxLen == 3         \* longest array handed to seededShuffle directly
MaxDays == 4        \* days the clock runs for
TicksPerDay == 3    \* clock ticks in a day
RngMod == 1000003   \* number of states of the stand-in generator
RngMult == 421      \* its multiplier
RngInc == 17        \* its increment
HashBase == 37      \* base of the stand-in seed hash

Min(a, b) == IF a < b THEN a ELSE b

(***************************************************************************)
(* Seeds.  A seed is a string built by joining components with "-"; it is  *)
(* modelled as the sequence of its components, each a number.              *)
(***************************************************************************)
GroupCode == [Easy |-> 1, Medium |-> 2, Hard |-> 3, filler |-> 4]
UserCode == [anonymous |-> 11, alice |-> 12, bob |-> 13]

(***************************************************************************)
(* seedrandom(seed): the generator of the seedrandom library, built from   *)
(* the seed string alone.  The library is not part of the repository; a    *)
(* linear congruential generator keyed by a hash of the seed stands in for *)
(* its ARC4 stream.  What matters is kept: the stream is a function of     *)
(* the seed, each call of seedrandom starts a generator of its own, and    *)
(* every draw is a fraction in [0, 1).                                     *)
(***************************************************************************)
RECURSIVE HashSeed(_, _)
HashSeed(seed, h) ==
    IF seed = <<>> THEN h
    ELSE HashSeed(Tail(seed), (h * HashBase + Head(seed) + 1) % RngMod)

seedrandom_leaky(seed) ==
    \* a generator shared by all calls: it carries on from the previous call
    IF last.fn = "none" THEN HashSeed(seed, 0)
    ELSE (HashSeed(seed, 0) + HashSeed(last.seed, 0) + 1) % RngMod

seedrandom(seed) == HashSeed(seed, 0)

\* rng(): advance the generator; the draw is g / RngMod, a fraction in [0,1)
rng(g) == (g * RngMult + RngInc) % RngMod

\* Math.floor(r * n) for the draw r = g / RngMod
FloorTimes(g, n) == (g * n) \div RngMod

(***************************************************************************)
(* seededShuffle (server.js:21-29)                                         *)
(***************************************************************************)
Swap_lossy(arr, i, j) == [arr EXCEPT ![i] = arr[j]]

\* [arr[i], arr[j]] = [arr[j], arr[i]]   (i, j are 1-based here)
Swap(arr, i, j) == [arr EXCEPT ![i] = arr[j], ![j] = arr[i]]

\* for (let i = arr.length - 1; i > 0; i--) { ... }   (i is the JS index)
RECURSIVE FisherYates(_, _, _)
FisherYates(arr, g, i) ==
    IF i > 0
    THEN LET g1 == rng(g)
             j == FloorTimes(g1, i + 1)
         IN FisherYates(Swap(arr, i + 1, j + 1), g1, i - 1)
    ELSE arr

\* array.slice(start, end): a new array holding the elements start..end-1
slice(h, r, start, end) ==
    [heap |-> Append(h, SubSeq(h[r], start + 1, Min(end, Len(h[r])))),
     ref |-> Len(h) + 1]

seededShuffle_inplace(h, array, seed) ==
    [heap |-> [h EXCEPT ![array] =
                  FisherYates(h[array], seedrandom(seed), Len(h[array]) - 1)],
     ref |-> array]

seededShuffle(h, array, seed) ==
    LET c == slice(h, array, 0, Len(h[array]))
        arr == c.ref
    IN [heap |-> [c.heap EXCEPT ![arr] =
                     FisherYates(c.heap[arr], seedrandom(seed), Len(c.heap[arr]) - 1)],
        ref |-> arr]

(***************************************************************************)
(* Questions and pools.  A question is a record of its id and difficulty   *)
(* (text, options and correct are carried along untouched and left out).   *)
(* questions.js is not part of the sources: pools are drawn from a family  *)
(* given by how many questions carry each label and by how they are laid   *)
(* out; ids are pairwise distinct, as the data model requires.             *)
(***************************************************************************)
Labels == <<"Easy", "Medium", "Hard", "Expert">>

Block(label, n, firstId) ==
    [i \in 1..n |-> [id |-> firstId + i - 1, difficulty |-> label]]

\* the questions grouped by label, in the order of Labels
BlocksPool(shape) ==
    Block("Easy", shape[1], 1)
    \o Block("Medium", shape[2], 1 + shape[1])
    \o Block("Hard", shape[3], 1 + shape[1] + shape[2])
    \o Block("Expert", shape[4], 1 + shape[1] + shape[2] + shape[3])

\* the labels interleaved: odd places filled from the front of the grouped
\* layout, even places from its back
MixedPool(shape) ==
    LET b == BlocksPool(shape)
        n == Len(b)
    IN [i \in 1..n |->
          [id |-> i,
           difficulty |-> IF i % 2 = 1 THEN b[(i + 1) \div 2].difficulty
                          ELSE b[n + 1 - (i \div 2)].difficulty]]

MakePool(shape, layout) ==
    IF layout = "blocks" THEN BlocksPool(shape) ELSE MixedPool(shape)

Ids(list) == {list[k].id : k \in 1..Len(list)}

(***************************************************************************)
(* groupByDifficulty (server.js:35-41): a reduce that pushes every         *)
(* question onto the array of its label, creating the array on first use.  *)
(* acc maps a label to the reference of its array, 0 meaning "undefined".  *)
(***************************************************************************)
RECURSIVE groupReduce(_, _, _, _)
groupReduce(h, pool, k, acc) ==
    IF k > Len(h[pool]) THEN [heap |-> h, acc |-> acc]
    ELSE LET q == h[pool][k]
             d == q.difficulty
         IN IF acc[d] = 0
            THEN groupReduce(Append(h, <<q>>), pool, k + 1,
                             [acc EXCEPT ![d] = Len(h) + 1])
            ELSE groupReduce([h EXCEPT ![acc[d]] = Append(@, q)], pool, k + 1, acc)

groupByDifficulty(h, pool) ==
    groupReduce(h, pool, 1, [d \in {Labels[k] : k \in 1..Len(Labels)} |-> 0])

(***************************************************************************)
(* buildDailySet (server.js:47-98)                                         *)
(***************************************************************************)
pickFromGroup_all(h, grouped, groupName, n, seed) ==
    LET arr == IF grouped[groupName] # 0
               THEN slice(h, grouped[groupName], 0, Len(h[grouped[groupName]]))
               ELSE [heap |-> Append(h, <<>>), ref |-> Len(h) + 1]
        shuffled == seededShuffle(arr.heap, arr.ref, seed \o <<GroupCode[groupName]>>)
    IN slice(shuffled.heap, shuffled.ref, 0, Len(shuffled.heap[shuffled.ref]))

pickFromGroup(h, grouped, groupName, n, seed) ==
    LET arr == IF grouped[groupName] # 0
               THEN slice(h, grouped[groupName], 0, Len(h[grouped[groupName]]))
               ELSE [heap |-> Append(h, <<>>), ref |-> Len(h) + 1]
        shuffled == seededShuffle(arr.heap, arr.ref, seed \o <<GroupCode[groupName]>>)
    IN slice(shuffled.heap, shuffled.ref, 0, n)

\* result.push(...items)
push(h, result, items) == [h EXCEPT ![result] = @ \o h[items]]

PullOrder_reversed == <<"Hard", "Medium", "Easy">>

\* the order of the three pulls (server.js:75-82)
PullOrder == <<"Easy", "Medium", "Hard">>

RECURSIVE pull(_, _, _, _, _)
pull(h, grouped, result, daySeed, k) ==
    IF k > Len(PullOrder) THEN h
    ELSE LET p == pickFromGroup(h, grouped, PullOrder[k], counts[PullOrder[k]], daySeed)
         IN pull(push(p.heap, result, p.ref), grouped, result, daySeed, k + 1)

remainingPool_unfiltered(h, pool, result) ==
    [heap |-> Append(h, h[pool]), ref |-> Len(h) + 1]

remainingPool_inverted(h, pool, result) ==
    [heap |-> Append(h, SelectSeq(h[pool],
                 LAMBDA q : \E k \in 1..Len(h[result]) : h[result][k].id = q.id)),
     ref |-> Len(h) + 1]

\* pool.filter(q => !result.some(r => r.id === q.id))
remainingPool(h, pool, result) ==
    [heap |-> Append(h, SelectSeq(h[pool],
                 LAMBDA q : ~ \E k \in 1..Len(h[result]) : h[result][k].id = q.id)),
     ref |-> Len(h) + 1]

buildDailySet(h, pool, dateSeed) ==
    LET g == groupByDifficulty(h, pool)
        result == Len(g.heap) + 1
        daySeed == dateSeed
        h3 == pull(Append(g.heap, <<>>), g.acc, result, daySeed, 1)
        picked == Len(h3[result])
    IN IF picked < SetSize
       THEN LET needed == SetSize - picked
                rem == remainingPool(h3, pool, result)
                sh == seededShuffle(rem.heap, rem.ref, daySeed \o <<GroupCode.filler>>)
                filler == slice(sh.heap, sh.ref, 0, needed)
            IN [heap |-> push(filler.heap, result, filler.ref), ref |-> result,
                picked |-> picked, branch |-> "fill",
                filler |-> filler.heap[filler.ref]]
       ELSE IF picked > SetSize
       THEN [heap |-> [h3 EXCEPT ![result] = SubSeq(@, 1, SetSize)], ref |-> result,
             picked |-> picked, branch |-> "trim", filler |-> <<>>]
       ELSE [heap |-> h3, ref |-> result,
             picked |-> picked, branch |-> "none", filler |-> <<>>]

(***************************************************************************)
(* The clock and the calendar.  The clock counts ticks; the run starts at  *)
(* 00:00 UTC two days before the last day of a month of monthLen days and  *)
(* goes on into the next month.  Days are numbered from the first day of   *)
(* the starting month (day monthLen + 1 is the 1st of the next month).     *)
(***************************************************************************)
MonthLens == {28, 29, 30, 31}
TzOffsets == {-1, 0, 1}

UtcDay(t) == monthLen - 2 + (t \div TicksPerDay)
LocalDay(t) == monthLen - 2 + ((t + tz) \div TicksPerDay)

Month(d) == IF d <= monthLen THEN 1 ELSE 2
DayOfMonth(d) == IF d <= monthLen THEN d ELSE d - monthLen

\* new Date().toISOString().slice(0, 10): the UTC date (server.js:108)
today(t) == <<Month(UtcDay(t)), DayOfMonth(UtcDay(t))>>

\* new Date().getDate(): the day of the month in the server's local time
getDate(t) == DayOfMonth(LocalDay(t))

dayOfMonthMod3_parity(t) == getDate(t) % 2

\* new Date().getDate() % 3 (server.js:111)
dayOfMonthMod3(t) == getDate(t) % RotationPeriod

(***************************************************************************)
(* GET /api/quiz (server.js:104-135).  The handler is synchronous, so a    *)
(* request is one atomic step.  raw is the userId query parameter, ""      *)
(* standing for an empty or absent one.  The handler reads the clock       *)
(* twice (lines 108 and 111); both reads fall in the same tick.  Nothing   *)
(* in the try block throws for the pools modelled, so the catch branch     *)
(* that answers 500 is not reached.                                        *)
(***************************************************************************)
RawUserIds == {"", "anonymous", "alice"}

\* req.query.userId || 'anonymous'
userIdOf(raw) == IF raw = "" THEN "anonymous" ELSE raw

\* `${today}-${dayOfMonthMod3}` (server.js:112)
dateSeedOf(t) == today(t) \o <<dayOfMonthMod3(t)>>

\* `${userId}-${today}` (server.js:118)
userSeedOf(raw, t) == <<UserCode[userIdOf(raw)]>> \o today(t)

\* shuffled.map(q => ({ id, text, options, correct, difficulty }))
payloadOf(list) ==
    [k \in 1..Len(list) |-> [id |-> list[k].id, difficulty |-> list[k].difficulty]]

handler_userSeedForSet(h, raw, t) ==
    \* the daily set built from the user seed instead of the day seed
    LET b == buildDailySet(h, 1, userSeedOf(raw, t))
        s == seededShuffle(b.heap, b.ref, userSeedOf(raw, t))
    IN [heap |-> s.heap, dailySet |-> b.heap[b.ref], dailySetRef |-> b.ref,
        payload |-> payloadOf(s.heap[s.ref])]

\* the body of the try block; h[1] is questionsPool
handler(h, raw, t) ==
    LET b == buildDailySet(h, 1, dateSeedOf(t))
        s == seededShuffle(b.heap, b.ref, userSeedOf(raw, t))
    IN [heap |-> s.heap, dailySet |-> b.heap[b.ref], dailySetRef |-> b.ref,
        payload |-> payloadOf(s.heap[s.ref])]

GetQuiz(raw) ==
    \E r \in {handler(<<questionsPool>>, raw, now)} :
    \E rec \in {[fn |-> "quiz", raw |-> raw, userId |-> userIdOf(raw),
                 today |-> today(now), rot |-> dayOfMonthMod3(now),
                 seed |-> userSeedOf(raw, now),
                 dailySet |-> r.dailySet, dailySetAfter |-> r.heap[r.dailySetRef],
                 payload |-> r.payload]} :
        /\ last' = rec
        /\ first' = IF first.fn = "none" \/ first.today # rec.today THEN rec ELSE first
        /\ questionsPool' = r.heap[1]
        /\ UNCHANGED <<pool0, tz, monthLen, now>>

\* time passes
Tick ==
    /\ now + 1 < MaxDays * TicksPerDay
    /\ now' = now + 1
    /\ UNCHANGED <<questionsPool, pool0, tz, monthLen, last, first>>

Request == \E raw \in RawUserIds : GetQuiz(raw)

ServedShapes == {<<MaxEasy, MaxMedium, MaxHard, 1>>, <<2, MaxMedium, MaxHard, 2>>}

Init ==
    /\ \E shape \in ServedShapes : questionsPool = MakePool(shape, "mixed")
    /\ pool0 = questionsPool
    /\ tz \in TzOffsets
    /\ monthLen \in MonthLens
    /\ now = 0
    /\ last = None
    /\ first = None

Next == Tick \/ Request

Spec == Init /\ [][Next]_vars

(***************************************************************************)
(* The two pure functions called directly, any number of times and in any  *)
(* order, on inputs drawn from bounded sets.  first keeps the first call.  *)
(***************************************************************************)
Elems == {[id |-> 1, difficulty |-> "Easy"], [id |-> 2, difficulty |-> "Hard"]}
Arrays == UNION {[1..n -> Elems] : n \in 0..MaxLen}
DaySeeds == {<<5, 1, 1>>, <<5, 2, 2>>}

\* the seed of the call made just before this one
PrevSeed == IF last.fn = "none" THEN <<>> ELSE last.seed

\* seededShuffle(array, seed) on an array of the caller's
CallSeededShuffle(array, seed) ==
    \E s \in {seededShuffle(<<questionsPool, array>>, 2, seed)} :
    \E rec \in {[fn |-> "seededShuffle", seed |-> seed, prev |-> PrevSeed,
                 array |-> array, arrayAfter |-> s.heap[2], ret |-> s.heap[s.ref]]} :
        /\ last' = rec
        /\ first' = IF first.fn = "none" THEN rec ELSE first
        /\ questionsPool' = s.heap[1]
        /\ UNCHANGED <<pool0, tz, monthLen, now>>

\* seededShuffle(questionsPool, seed)
CallSeededShuffleOnPool(seed) ==
    \E s \in {seededShuffle(<<questionsPool>>, 1, seed)} :
    \E rec \in {[fn |-> "seededShuffle", seed |-> seed, prev |-> PrevSeed,
                 array |-> questionsPool, arrayAfter |-> s.heap[1],
                 ret |-> s.heap[s.ref]]} :
        /\ last' = rec
        /\ first' = IF first.fn = "none" THEN rec ELSE first
        /\ questionsPool' = s.heap[1]
        /\ UNCHANGED <<pool0, tz, monthLen, now>>

\* buildDailySet(questionsPool, seed)
CallBuildDailySet(seed) ==
    \E b \in {buildDailySet(<<questionsPool>>, 1, seed)} :
    \E rec \in {[fn |-> "buildDailySet", seed |-> seed, prev |-> PrevSeed,
                 pool |-> questionsPool,
                 ret |-> b.heap[b.ref], picked |-> b.picked, branch |-> b.branch,
                 filler |-> b.filler]} :
        /\ last' = rec
        /\ first' = IF first.fn = "none" THEN rec ELSE first
        /\ questionsPool' = b.heap[1]
        /\ UNCHANGED <<pool0, tz, monthLen, now>>

Shuffles == \E array \in Arrays, seed \in DaySeeds : CallSeededShuffle(array, seed)
PoolShuffles == \E seed \in DaySeeds : CallSeededShuffleOnPool(seed)
Builds == \E seed \in DaySeeds : CallBuildDailySet(seed)

InitPure ==
    /\ \E shape \in ServedShapes : questionsPool = MakePool(shape, "mixed")
    /\ pool0 = questionsPool
    /\ tz = 0
    /\ monthLen = 31
    /\ now = 0
    /\ last = None
    /\ first = None

NextPure == Shuffles \/ PoolShuffles \/ Builds

SpecPure == InitPure /\ [][NextPure]_vars

(***************************************************************************)
(* buildDailySet alone, over the whole family of pools.                    *)
(***************************************************************************)
EasyCounts == {0, 2, QuotaEasy, MaxEasy}
MediumCounts == {0, QuotaMedium, MaxMedium}
HardCounts == {0, QuotaHard - 1, QuotaHard, MaxHard}
OtherCounts == {0, 1, MaxOther}
Layouts == {"blocks", "mixed"}

InitBuild ==
    /\ \E e \in EasyCounts, m \in MediumCounts, hd \in HardCounts, o \in OtherCounts,
          layout \in Layouts : questionsPool = MakePool(<<e, m, hd, o>>, layout)
    /\ pool0 = questionsPool
    /\ tz = 0
    /\ monthLen = 31
    /\ now = 0
    /\ last = None
    /\ first = None

NextBuild == Builds

SpecBuild == InitBuild /\ [][NextBuild]_vars

(***************************************************************************)
(* Helpers of the properties.                                              *)
(***************************************************************************)
Range(f) == {f[k] : k \in DOMAIN f}
Occurrences(e, f) == Cardinality({k \in DOMAIN f : f[k] = e})
SameMultiset(f, g) ==
    /\ Len(f) = Len(g)
    /\ \A e \in Range(f) \cup Range(g) : Occurrences(e, f) = Occurrences(e, g)
CountOf(label, list) == Cardinality({k \in DOMAIN list : list[k].difficulty = label})
DistinctIds(list) == Cardinality(Ids(list)) = Len(list)
Built == last.fn = "buildDailySet"
Shuffled == last.fn = "seededShuffle"
TwoRequests == first.fn = "quiz" /\ last.fn = "quiz"

(***************************************************************************)
(* C1: for a pool of at least 30 questions with pairwise distinct ids,     *)
(* buildDailySet returns exactly 30 items with pairwise distinct ids, all  *)
(* members of the pool; when the groups fall short of 30 the filler is     *)
(* exactly the 30 - picked missing items, none of them already selected.   *)
(***************************************************************************)
C1_ThirtyDistinctFromPool ==
    (Built /\ Len(last.pool) >= SetSize /\ DistinctIds(last.pool)) =>
        /\ Len(last.ret) = SetSize
        /\ DistinctIds(last.ret)
        /\ Range(last.ret) \subseteq Range(last.pool)
        /\ last.picked <= SetSize
        /\ last.picked = SetSize => last.filler = <<>>
        /\ last.picked < SetSize =>
              /\ Len(last.filler) = SetSize - last.picked
              /\ last.ret = SubSeq(last.ret, 1, last.picked) \o last.filler
              /\ Ids(last.filler) \cap Ids(SubSeq(last.ret, 1, last.picked)) = {}

C1_Witness ==
    /\ Built
    /\ Len(last.pool) >= SetSize
    /\ CountOf("Easy", last.pool) < QuotaEasy
    /\ last.picked < SetSize
    /\ Len(last.filler) = SetSize - last.picked
    /\ Len(last.ret) = SetSize

(***************************************************************************)
(* C2: when the pool holds at least 4 Easy, 5 Medium and 21 Hard           *)
(* questions, the returned list has Easy questions in its first 4 places,  *)
(* Medium in the next 5 and Hard in the remaining 21.                      *)
(***************************************************************************)
C2_ProgressionBlocks ==
    (/\ Built
     /\ CountOf("Easy", last.pool) >= QuotaEasy
     /\ CountOf("Medium", last.pool) >= QuotaMedium
     /\ CountOf("Hard", last.pool) >= QuotaHard) =>
        /\ Len(last.ret) = QuotaEasy + QuotaMedium + QuotaHard
        /\ \A k \in 1..Len(last.ret) :
              last.ret[k].difficulty =
                 IF k <= QuotaEasy THEN "Easy"
                 ELSE IF k <= QuotaEasy + QuotaMedium THEN "Medium"
                 ELSE "Hard"

C2_Witness ==
    /\ Built
    /\ CountOf("Easy", last.pool) > QuotaEasy
    /\ CountOf("Medium", last.pool) > QuotaMedium
    /\ CountOf("Hard", last.pool) > QuotaHard
    /\ CountOf("Expert", last.pool) > 0
    /\ last.pool[2].difficulty = "Expert"
    /\ last.ret[1].difficulty = "Easy"
    /\ last.ret[SetSize].difficulty = "Hard"

(***************************************************************************)
(* C7: for a pool of fewer than 30 questions with pairwise distinct ids,   *)
(* buildDailySet returns a list shorter than 30 that holds every question  *)
(* of the pool exactly once.                                               *)
(***************************************************************************)
C7_UndersizedPoolReturnedWhole ==
    (Built /\ Len(last.pool) < SetSize /\ DistinctIds(last.pool)) =>
        /\ Len(last.ret) = Len(last.pool)
        /\ Len(last.ret) < SetSize
        /\ SameMultiset(last.ret, last.pool)

C7_Witness ==
    /\ Built
    /\ Len(last.pool) < SetSize
    /\ CountOf("Expert", last.pool) > 0
    /\ CountOf("Easy", last.pool) > QuotaEasy
    /\ last.branch = "fill"
    /\ 0 < last.picked /\ last.picked < Len(last.ret)
    /\ Len(last.ret) = Len(last.pool)

(***************************************************************************)
(* C10: the three pulls never gather more than 30 items, the truncation    *)
(* branch is never taken and the returned list never has more than 30      *)
(* items.                                                                  *)
(***************************************************************************)
C10_NeverOverThirty ==
    Built =>
        /\ last.picked <= SetSize
        /\ last.branch # "trim"
        /\ Len(last.ret) <= SetSize

C10_Witness ==
    /\ Built
    /\ CountOf("Easy", last.pool) > QuotaEasy
    /\ CountOf("Medium", last.pool) > QuotaMedium
    /\ CountOf("Hard", last.pool) > QuotaHard
    /\ last.picked = SetSize
    /\ last.branch = "none"

(***************************************************************************)
(* C5: seededShuffle returns a sequence of the same length holding the     *)
(* same multiset of elements as its input; an empty or single-element      *)
(* input comes back with its content unchanged.                            *)
(***************************************************************************)
C5_ShuffleIsPermutation ==
    Shuffled =>
        /\ SameMultiset(last.ret, last.array)
        /\ Len(last.array) <= 1 => last.ret = last.array

C5_Witness ==
    /\ Shuffled
    /\ Len(last.array) >= 3
    /\ last.array[1] = last.array[3]
    /\ last.array[1] # last.array[2]
    /\ last.ret # last.array
    /\ SameMultiset(last.ret, last.array)

(***************************************************************************)
(* C6: two calls of seededShuffle with the same sequence and the same seed *)
(* return identical results whatever calls ran before or between them, and *)
(* so do two calls of buildDailySet with the same pool and day seed.       *)
(***************************************************************************)
SameCall ==
    /\ first.fn # "none"
    /\ first.fn = last.fn
    /\ first.seed = last.seed
    /\ first.fn = "seededShuffle" => first.array = last.array
    /\ first.fn = "buildDailySet" => first.pool = last.pool

C8_InputsUntouched ==
    /\ questionsPool = pool0
    /\ Shuffled => last.arrayAfter = last.array
    /\ Built => questionsPool = last.pool

C8_Witness ==
    /\ first.fn = "buildDailySet"
    /\ Shuffled
    /\ last.array = pool0
    /\ last.ret # last.array
    /\ last.arrayAfter = last.array
    /\ questionsPool = pool0

(***************************************************************************)
(* C3: two requests to GET /api/quiz with the same userId on the same      *)
(* calendar day are served the identical list.                             *)
(***************************************************************************)
C3_SameUserSameDaySameList ==
    (TwoRequests /\ first.raw = last.raw /\ first.today = last.today) =>
        first.payload = last.payload

RotationAfter(days) == dayOfMonthMod3(now + days * TicksPerDay)
SameMonthAfter(days) ==
    Month(LocalDay(now)) = Month(LocalDay(now + days * TicksPerDay))
AllIndices == 0..(RotationPeriod - 1)

C9_PeriodThreeAlways ==
    /\ RotationAfter(0) # RotationAfter(1)
    /\ {RotationAfter(0), RotationAfter(1), RotationAfter(2)} = AllIndices

(***************************************************************************)
(* C9 as amended: the index differs on two consecutive days of the same    *)
(* month and takes all three values on three consecutive days of the same  *)
(* month (local time).                                                     *)
(***************************************************************************)
C9_PeriodThreeWithinMonth ==
    /\ SameMonthAfter(1) => RotationAfter(0) # RotationAfter(1)
    /\ SameMonthAfter(2) =>
          {RotationAfter(0), RotationAfter(1), RotationAfter(2)} = AllIndices

C9_Witness ==
    /\ last.fn = "quiz"
    /\ last.rot = RotationAfter(0)
    /\ SameMonthAfter(2)
    /\ RotationAfter(1) = (last.rot + 1) % RotationPeriod
    /\ RotationAfter(2) = (last.rot + 2) % RotationPeriod

====
